---- MODULE Spec2Model ----
(***************************************************************************)
(* The response-rewriting fetch wrappers of typing_mind_deepseek_thinking. *)
(*                                                                         *)
(* The repository holds four bodies of processStreamingResponse, two per   *)
(* source file.  They are told apart here by the value of `variant`:       *)
(*   "reasonA"  src/reason.js          lines  63-134                       *)
(*   "reasonB"  src/reason.js          lines 307-457                       *)
(*   "partA"    src/unnamed/part_000   lines  63-196                       *)
(*   "partB"    src/unnamed/part_000   lines 369-520                       *)
(*                                                                         *)
(* Text is a sequence of tokens.  A token is one character or a short run  *)
(* of characters that the code never looks into; "\n" is always a token of *)
(* its own, the marker 'data: ' is the two tokens "data:" and " ", and the *)
(* sentinel token is "[DONE]".  On the wire the character e-acute is the   *)
(* two bytes "C3" "A9"; every other token is its own byte string.          *)
(***************************************************************************)
EXTENDS Naturals, Sequences, FiniteSets, TLC

\* ------------------------------------------------------------------ bounds
MaxLines == 3   \* lines in one input stream
MaxClock == 2   \* ticks of performance.now(), one tick = 500 ms
MaxChunk == 5   \* bytes in one chunk, where chunks are cut at any byte

\* ------------------------------------------------------- sequence helpers
\* The concatenation of the sequences ss[1], ..., ss[n], by halves.
RECURSIVE Flatten(_)
Flatten(ss) ==
  IF Len(ss) = 0 THEN <<>>
  ELSE IF Len(ss) = 1 THEN ss[1]
  ELSE LET h == Len(ss) \div 2
       IN Flatten(SubSeq(ss, 1, h)) \o Flatten(SubSeq(ss, h + 1, Len(ss)))

\* parts.join(sep), each part and sep being a text
Join(ss, sep) ==
  Flatten([i \in 1..Len(ss) |-> IF i = 1 THEN ss[i] ELSE sep \o ss[i]])

Includes(s, tok) == \E i \in DOMAIN s : s[i] = tok

StartsWith(s, p) == Len(s) >= Len(p) /\ SubSeq(s, 1, Len(p)) = p

\* --------------------------------------------------------- JSON values
\* A JSON value as the code sees it: absent (undefined), null, a string (its
\* characters), a number (its digits) or a list of strings.
Absent == [t |-> "absent", s |-> <<>>]
Null == [t |-> "null", s |-> <<>>]
Str(chars) == [t |-> "str", s |-> chars]
Num(digits) == [t |-> "num", s |-> <<digits>>]
List(items) == [t |-> "list", s |-> items]

\* JavaScript truthiness: an array is truthy even when empty, a string when
\* it is non-empty.
Truthy(v) ==
  CASE v.t = "absent" -> FALSE
    [] v.t = "null" -> FALSE
    [] v.t = "str" -> v.s # <<>>
    [] OTHER -> TRUE

\* A parsed payload: { id?, choices?: [{ index?, delta?: { reasoning?,
\* content? } }], citations? }.  `id` stands for any top-level field the code
\* does not name, `index` for any such field of the first choice.
Data(id, hasChoices, index, hasDelta, reasoning, content, cit) ==
  [id |-> id, hasChoices |-> hasChoices, index |-> index, hasDelta |-> hasDelta,
   reasoning |-> reasoning, content |-> content, citations |-> cit]

\* An event with a delta.
Chat(id, reasoning, content, cit) ==
  Data(id, TRUE, Num("0"), TRUE, reasoning, content, cit)

\* { choices: [{ delta: { content } }] }
ContentOnly(content) ==
  Data(Absent, TRUE, Absent, TRUE, Absent, Str(content), Absent)

\* Object.keys(data).length
KeyCount(data) ==
  (IF data.id.t = "absent" THEN 0 ELSE 1)
  + (IF data.hasChoices THEN 1 ELSE 0)
  + (IF data.citations.t = "absent" THEN 0 ELSE 1)

\* --------------------------------------------------------- JSON.stringify
WS == "  "   \* insignificant white space between JSON tokens

EscapeChar(c) == IF c = "\n" THEN "\\n" ELSE c

Quoted(chars) == <<"\"">> \o [i \in DOMAIN chars |-> EscapeChar(chars[i])] \o <<"\"">>

ValueTokens(v) ==
  CASE v.t = "null" -> <<"null">>
    [] v.t = "str" -> Quoted(v.s)
    [] v.t = "num" -> v.s
    [] v.t = "list" ->
         <<"[">> \o Join([i \in DOMAIN v.s |-> Quoted(<<v.s[i]>>)], <<",">>) \o <<"]">>
    [] OTHER -> <<>>

Member(key, v) == IF v.t = "absent" THEN <<>> ELSE << <<key>> \o ValueTokens(v) >>

Object(members) == <<"{">> \o Join(members, <<",">>) \o <<"}">>

Stringify(data) ==
  LET delta == Object(Member("\"reasoning\":", data.reasoning)
                      \o Member("\"content\":", data.content))
      choice == Object(Member("\"index\":", data.index)
                       \o (IF data.hasDelta THEN << <<"\"delta\":">> \o delta >> ELSE <<>>))
  IN Object(Member("\"id\":", data.id)
            \o (IF data.hasChoices
                THEN << <<"\"choices\":[">> \o choice \o <<"]">> >> ELSE <<>>)
            \o Member("\"citations\":", data.citations))

\* ------------------------------------------------------------ wire format
Marker == <<"data:", " ">>          \* 'data: '
SentinelToken == "[DONE]"
HeaderText == <<"U+1F4AD Thinking...", "\n", "\n", "> ">>
ThoughtFor == "U+1F4A1 Thought for "

\* No token: the place of a token that is left out.
None == ""

\* The tokens of s that are there, in order.
Present(s) == SelectSeq(s, LAMBDA tok : tok # None)

\* (mutant) the line is forwarded without its line break
ForwardBare(line) == line

\* `${line}\n`
Forward(line) == line \o <<"\n">>

\* `data: ${JSON.stringify(obj)}\n\n`
Emit(obj) == Marker \o Stringify(obj) \o <<"\n", "\n">>

\* delta.reasoning.replace(/\n/g, '\n> '): slot 2i-1 holds chars[i] and slot 2i
\* what is put after it; None is dropped.
\* (mutant) the fragment is forwarded as it is
QuoteBreaksNone(chars) == chars

QuoteBreaks(chars) ==
  Present([k \in 1..(2 * Len(chars)) |->
             IF k % 2 = 1 THEN chars[(k + 1) \div 2]
             ELSE IF chars[k \div 2] = "\n" THEN "> " ELSE None])

\* Math.round((performance.now() - startThinkingTime) / 1000), the clock
\* counted in ticks of 500 ms: Math.round rounds a half upwards.
ThinkingDuration(now, start) == ((now - start) + 1) \div 2

\* `\n\n<bulb> Thought for ${thinkingDuration} seconds\n\n---\n\n`
SeparatorText(d) ==
  <<"\n", "\n", ThoughtFor, ToString(d), " seconds", "\n", "\n", "---", "\n", "\n">>

\* citations.map((citation, i) => `[${i + 1}] > ${citation}`).join("\n")
CitationsTextSpaced(cit) ==
  Join([i \in DOMAIN cit |-> <<"[", ToString(i), "] > ", cit[i]>>], <<"\n">>)

\* citations.map((citation, i) => `[${i + 1}]> ${citation}`).join('\n')
CitationsTextTight(cit) ==
  Join([i \in DOMAIN cit |-> <<"[", ToString(i), "]> ", cit[i]>>], <<"\n">>)

\* `data: ${JSON.stringify({ citations: citationsText })}\n\n`
CitationsMessage(cit) ==
  Emit(Data(Absent, FALSE, Absent, FALSE, Absent, Absent, Str(CitationsTextSpaced(cit))))

\* { choices: [{ delta: { content: '\n\n---\n\nSources:\n' + ... } }] }
CitationsChunk(cit) ==
  Emit(ContentOnly(<<"\n", "\n", "---", "\n", "\n", "Sources:", "\n">>
                   \o CitationsTextTight(cit)))

\* { choices: [{ delta: { content: '\n\n---\n\n' + ... } }] }
CitationsData(cit) ==
  Emit(ContentOnly(<<"\n", "\n", "---", "\n", "\n">> \o CitationsTextTight(cit)))

\* ------------------------------------------------------------- the inputs
ReasoningAB == <<"a", "\n", "b">>
ReasoningC == <<"c">>
U12 == List(<<"u1", "u2">>)
U3 == List(<<"u3">>)

EvReasoning == Chat(Absent, Str(ReasoningAB), Null, Absent)
EvReasoningMore == Chat(Absent, Str(ReasoningC), Null, Absent)
EvReasoningCited == Chat(Num("7"), Str(ReasoningC), Null, U12)
EvReasoningNoContentKey == Chat(Absent, Str(ReasoningC), Absent, Absent)
EvReasoningEmptyContent == Chat(Absent, Str(ReasoningC), Str(<<>>), Absent)
EvContent == Chat(Absent, Absent, Str(<<"x">>), Absent)
EvContentCited == Chat(Num("7"), Absent, Str(<<"E9">>), U3)
EvContentNull == Chat(Absent, Absent, Null, Absent)
EvEmptyDelta == Chat(Absent, Absent, Absent, Absent)
EvContentDone == Chat(Absent, Absent, Str(<<SentinelToken>>), Absent)
EvUsage == Data(Num("7"), FALSE, Absent, FALSE, Absent, Absent, Absent)
EvCitations == Data(Absent, FALSE, Absent, FALSE, Absent, Absent, U12)
EvCitationsOther == Data(Num("7"), FALSE, Absent, FALSE, Absent, Absent, U3)
EvCitationsEmpty == Data(Absent, FALSE, Absent, FALSE, Absent, Absent, List(<<>>))
EvCitationsString == Data(Num("7"), FALSE, Absent, FALSE, Absent, Absent, Str(<<"s">>))

\* Every payload the model's streams can carry.
Universe ==
  {EvReasoning, EvReasoningMore, EvReasoningCited, EvReasoningNoContentKey,
   EvReasoningEmptyContent, EvContent, EvContentCited, EvContentNull, EvEmptyDelta,
   EvContentDone, EvUsage, EvCitations, EvCitationsOther, EvCitationsEmpty,
   EvCitationsString}

EventLine(obj) == Marker \o Stringify(obj)

\* The same event with white space after the opening brace.
SpacedLine(obj) ==
  LET p == Stringify(obj) IN Marker \o <<Head(p), WS>> \o Tail(p)

BlankLine == <<>>
CommentLine == <<":", "k">>
NoSpaceLine == <<"data:", "x">>          \* 'data:x', the marker without its space
SentinelLine == Marker \o <<SentinelToken>>
MalformedLine == Marker \o <<"{", "\"id\":">>

\* ------------------------------------------------------------- JSON.parse
\* JSON.parse of a payload: white space between tokens is skipped; a token
\* sequence that is the serialisation of no value makes it throw.
\* The payloads a body makes itself, which the body wrapped around it reads
\* in turn: the header, the quoted fragments, the separator and the footers.
Synthetic ==
  {ContentOnly(HeaderText)}
  \cup {ContentOnly(QuoteBreaks(r)) : r \in {ReasoningAB, ReasoningC}}
  \cup {ContentOnly(SeparatorText(d)) : d \in 0..MaxClock}
  \cup UNION {{Data(Absent, FALSE, Absent, FALSE, Absent, Absent,
                     Str(CitationsTextSpaced(c))),
                ContentOnly(<<"\n", "\n", "---", "\n", "\n", "Sources:", "\n">>
                            \o CitationsTextTight(c)),
                ContentOnly(<<"\n", "\n", "---", "\n", "\n">> \o CitationsTextTight(c))} :
               c \in {U12.s, U3.s}}

StringifyTable == {<<Stringify(o), o>> : o \in Universe \cup Synthetic}

\* The values whose serialisation is the token sequence p.
Parsed(p) == {e[2] : e \in {x \in StringifyTable : x[1] = p}}

ParseResult(hits) ==
  IF hits = {} THEN [ok |-> FALSE, data |-> EvEmptyDelta]
  ELSE [ok |-> TRUE, data |-> CHOOSE o \in hits : TRUE]

Parse(payload) == ParseResult(Parsed(SelectSeq(payload, LAMBDA tok : tok # WS)))

\* line.slice(6)
Payload(line) == SubSeq(line, Len(Marker) + 1, Len(line))

\* ---------------------------------------------------- TextDecoder/Encoder
LeadByte == "C3"
ContinuationByte == "A9"
Replacement == "FFFD"

\* textEncoder.encode(text)
Encode(text) ==
  Present([k \in 1..(2 * Len(text)) |->
             IF k % 2 = 1
             THEN IF text[(k + 1) \div 2] = "E9" THEN LeadByte ELSE text[(k + 1) \div 2]
             ELSE IF text[k \div 2] = "E9" THEN ContinuationByte ELSE None])

\* decoder.decode(value, { stream: true }): `held` is the lead byte the
\* decoder holds back until its continuation arrives.  A lead byte that is
\* not continued, and a continuation byte without its lead, decode to U+FFFD.
Decode(held, bytes) ==
  LET afterLead(i) == IF i = 1 THEN held # <<>> ELSE bytes[i - 1] = LeadByte
      \* what ends at byte i: the replacement of a lead byte left alone
      ended(i) ==
        IF afterLead(i) /\ bytes[i] # ContinuationByte THEN Replacement ELSE None
      \* what byte i itself decodes to
      decoded(i) ==
        IF bytes[i] = ContinuationByte
        THEN IF afterLead(i) THEN "E9" ELSE Replacement
        ELSE IF bytes[i] = LeadByte THEN None ELSE bytes[i]
  IN [text |-> Present([k \in 1..(2 * Len(bytes)) |->
                          IF k % 2 = 1 THEN ended((k + 1) \div 2)
                          ELSE decoded(k \div 2)]),
      pending |-> IF bytes = <<>> THEN held
                  ELSE IF bytes[Len(bytes)] = LeadByte THEN <<LeadByte>> ELSE <<>>]

\* ----------------------------------------------------------- line buffer
\* buffer.split('\n'): the segments between line breaks, the last one being
\* what follows the last line break.
Breaks(text) == SelectSeq([i \in 1..Len(text) |-> i], LAMBDA i : text[i] = "\n")

Split(text) ==
  LET br == Breaks(text)
      from(k) == IF k = 1 THEN 1 ELSE br[k - 1] + 1
      to(k) == IF k = Len(br) + 1 THEN Len(text) ELSE br[k] - 1
  IN [k \in 1..(Len(br) + 1) |-> SubSeq(text, from(k), to(k))]

\* (mutant) the segment after the last line break is taken as a line too
CompleteLinesAll(text) == Split(text)

\* const lines = buffer.split('\n'); buffer = lines.pop() || ''
CompleteLines(text) == LET l == Split(text) IN SubSeq(l, 1, Len(l) - 1)
\* (mutant) buffer = '' after every read: the partial line is dropped
RemainderDropped(text) == <<>>

Remainder(text) == LET l == Split(text) IN l[Len(l)]

\* ----------------------------------------------- per-response variables
VARIABLES
  variant,            \* which body of processStreamingResponse runs
  cuts,               \* where the transport may cut a chunk: "bytes" or "lines"
  input,              \* the bytes the transport delivers, in order
  pos,                \* how many of them have been read
  pending,            \* the TextDecoder's held-back lead byte
  buffer,             \* let buffer = ''
  lines,              \* the lines of the current chunk still to be processed
  reasoningStarted,   \* let reasoningStarted = false
  reasoningEnded,     \* let reasoningEnded = false
  startThinkingTime,  \* let startThinkingTime = null: <<>> is null, <<t>> a time
  citations,          \* let citations = null (partB: [])
  citationsReceived,  \* let citationsReceived = false (partB)
  responseFinished,   \* let responseFinished = false (partA)
  now,                \* performance.now(), in ticks
  out,                \* what controller.enqueue has been given, in order
  streamState,        \* the output stream: "readable", "closed" or "errored"
  readFailed,         \* reader.read() has rejected
  pc,                 \* "read": awaiting reader.read(); "lines": in the for loop
  cancelled,          \* the consumer has cancelled the output stream
  readsAfterCancel,   \* reader.read() calls made since it did
  other,              \* a second response in progress: its variables, or <<>>
  request,            \* the arguments of a call of window.fetch, or <<>>
  response,           \* what originalFetch resolved with, or <<>>
  fetches,            \* how often the call has invoked originalFetch
  returned,           \* what the call's promise settled with, or <<>>
  fpc                 \* where the call of window.fetch stands

\* The variables of one call of window.fetch.
callVars == <<request, response, fetches, returned, fpc>>

vars ==
  <<variant, cuts, input, pos, pending, buffer, lines, reasoningStarted,
    reasoningEnded, startThinkingTime, citations, citationsReceived,
    responseFinished, now, out, streamState, readFailed, pc, cancelled,
    readsAfterCancel, other, callVars>>

Variants == {"reasonA", "reasonB", "partA", "partB"}

\* The variables a line can change, as one record.
Session(started, ended, start, cit, received) ==
  [reasoningStarted |-> started, reasoningEnded |-> ended,
   startThinkingTime |-> start, citations |-> cit, citationsReceived |-> received]

\* let citations = null / let citations = []
InitialCitations(v) == IF v = "partB" THEN List(<<>>) ELSE Null

InitialSession(v) == Session(FALSE, FALSE, <<>>, InitialCitations(v), FALSE)

\* What processing one line does: the session after it, the texts it
\* enqueues, and whether it throws out of the read loop.
Result(s, enq, thrown) == [s |-> s, enq |-> enq, thrown |-> thrown]

\* { ...data, choices: [{ ...data.choices[0], delta: { content } }] }
SpreadWith(data, content) ==
  [data EXCEPT !.reasoning = Absent, !.content = Str(content)]

\* if (data.citations && !citations) citations = data.citations
Capture(s, data) ==
  IF Truthy(data.citations) /\ ~Truthy(s.citations)
  THEN [s EXCEPT !.citations = data.citations] ELSE s

\* The sentinel branch of the reason.js bodies: the footer, then the line.
\* citations.map throws a TypeError when citations is not an array, and the
\* throw is outside the per-line try.
SentinelWithFooter(s, line) ==
  IF Truthy(s.citations)
  THEN IF s.citations.t # "list" THEN Result(s, <<>>, TRUE)
       ELSE Result([s EXCEPT !.citations = Null],
                   <<CitationsMessage(s.citations.s), Forward(line)>>, FALSE)
  ELSE Result(s, <<Forward(line)>>, FALSE)

\* (mutant) the header is sent with every reasoning fragment
ReasoningBranchAlwaysHeader(s, header, fragment, now0) ==
  Result([s EXCEPT !.reasoningStarted = TRUE,
                   !.startThinkingTime = IF s.reasoningStarted THEN @ ELSE <<now0>>],
         <<Emit(header), Emit(fragment)>>, FALSE)

\* The reasoning branch: the header once, then the quoted fragment.
ReasoningBranch(s, header, fragment, now0) ==
  Result([s EXCEPT !.reasoningStarted = TRUE,
                   !.startThinkingTime = IF s.reasoningStarted THEN @ ELSE <<now0>>],
         (IF s.reasoningStarted THEN <<>> ELSE <<Emit(header)>>) \o <<Emit(fragment)>>,
         FALSE)

\* (mutant) the separator is sent after the line that ends the reasoning
SeparatorBranchLate(s, separator, line) ==
  Result([s EXCEPT !.reasoningEnded = TRUE], <<Forward(line), Emit(separator)>>, FALSE)

\* The branch that ends the reasoning: the separator, then the line as it is.
SeparatorBranch(s, separator, line) ==
  Result([s EXCEPT !.reasoningEnded = TRUE], <<Emit(separator), Forward(line)>>, FALSE)

\* (mutant) the separator is built without the start time being read
SeparatorForUnread(s, now0) == SeparatorText(ThinkingDuration(now0, now0))

\* Math.round((performance.now() - startThinkingTime) / 1000) in the separator
SeparatorFor(s, now0) == SeparatorText(ThinkingDuration(now0, s.startThinkingTime[1]))

\* const cleanData = { ...data }; if (cleanData.citations) delete cleanData.citations
CleanData(data) ==
  IF Truthy(data.citations) THEN [data EXCEPT !.citations = Absent] ELSE data

\* (mutant) the line that does not parse is dropped
ParseFailedDrops(s, line) == Result(s, <<>>, FALSE)

\* catch (parseError) { console.error(...); controller.enqueue(`${line}\n`) }
ParseFailed(s, line) == Result(s, <<Forward(line)>>, FALSE)

\* The try block of lines 97-104 on the parsed payload.
EventReasonA(s, line, data) == Result(Capture(s, data), <<Forward(line)>>, FALSE)

ParsedReasonA(s, line, p) ==
  IF ~p.ok THEN ParseFailed(s, line) ELSE EventReasonA(s, line, p.data)

ProcessLineReasonA(s, line, now0) ==
  IF ~StartsWith(line, Marker) THEN Result(s, <<Forward(line)>>, FALSE)
  ELSE IF Includes(line, SentinelToken) THEN SentinelWithFooter(s, line)
  ELSE ParsedReasonA(s, line, Parse(Payload(line)))

\* The try block of lines 353-424 after the capture: s1 is the session with
\* the citations captured.
EventReasonB(s1, line, now0, data) ==
  IF data.hasChoices /\ data.hasDelta
  THEN IF Truthy(data.reasoning) /\ data.content.t = "null"
       THEN ReasoningBranch(s1, SpreadWith(data, HeaderText),
                            SpreadWith(data, QuoteBreaks(data.reasoning.s)), now0)
       ELSE IF data.content.t # "null" /\ s1.reasoningStarted /\ ~s1.reasoningEnded
       THEN SeparatorBranch(s1, SpreadWith(data, SeparatorFor(s1, now0)), line)
       ELSE Result(s1, <<Forward(line)>>, FALSE)
  ELSE Result(s1, <<Forward(line)>>, FALSE)

ParsedReasonB(s, line, now0, p) ==
  IF ~p.ok THEN ParseFailed(s, line)
  ELSE EventReasonB(Capture(s, p.data), line, now0, p.data)

ProcessLineReasonB(s, line, now0) ==
  IF ~StartsWith(line, Marker) THEN Result(s, <<Forward(line)>>, FALSE)
  ELSE IF Includes(line, SentinelToken) THEN SentinelWithFooter(s, line)
  ELSE ParsedReasonB(s, line, now0, Parse(Payload(line)))

\* The try block of part_000 lines 114-172 after the capture.
EventPartA(s1, line, now0, data) ==
  IF data.hasChoices /\ data.hasDelta
  THEN IF Truthy(data.reasoning) /\ ~Truthy(data.content)
       THEN ReasoningBranch(s1, ContentOnly(HeaderText),
                            ContentOnly(QuoteBreaks(data.reasoning.s)), now0)
       ELSE IF data.content.t # "absent" /\ s1.reasoningStarted /\ ~s1.reasoningEnded
       THEN SeparatorBranch(s1, ContentOnly(SeparatorFor(s1, now0)), line)
       ELSE Result(s1, <<Forward(line)>>, FALSE)
  ELSE Result(s1, <<Forward(line)>>, FALSE)

ParsedPartA(s, line, now0, p) ==
  IF ~p.ok THEN ParseFailed(s, line)
  ELSE EventPartA(Capture(s, p.data), line, now0, p.data)

ProcessLinePartA(s, line, now0) ==
  IF ~StartsWith(line, Marker) THEN Result(s, <<Forward(line)>>, FALSE)
  ELSE IF Includes(line, SentinelToken) THEN Result(s, <<Forward(line)>>, FALSE)
  ELSE ParsedPartA(s, line, now0, Parse(Payload(line)))

\* if (data.citations && !citationsReceived)
CapturesPartB(s, data) == Truthy(data.citations) /\ ~s.citationsReceived

\* citations = data.citations; citationsReceived = true
CapturePartB(s, data) ==
  IF CapturesPartB(s, data)
  THEN [s EXCEPT !.citations = data.citations, !.citationsReceived = TRUE] ELSE s

\* The try block of part_000 lines 417-497: s is the session before the
\* capture, s1 the session after it.
EventPartB(s, s1, line, now0, data) ==
  IF CapturesPartB(s, data) /\ KeyCount(data) = 1 THEN Result(s1, <<>>, FALSE)
  ELSE IF data.hasChoices /\ data.hasDelta
  THEN IF Truthy(data.reasoning) /\ data.content.t = "null"
       THEN ReasoningBranch(s1, SpreadWith(data, HeaderText),
                            SpreadWith(data, QuoteBreaks(data.reasoning.s)), now0)
       ELSE IF data.content.t # "null" /\ s1.reasoningStarted /\ ~s1.reasoningEnded
       THEN SeparatorBranch(s1, SpreadWith(data, SeparatorFor(s1, now0)), line)
       ELSE Result(s1, <<Emit(CleanData(data))>>, FALSE)
  ELSE Result(s1, <<Emit(CleanData(data))>>, FALSE)

ParsedPartB(s, line, now0, p) ==
  IF ~p.ok THEN ParseFailed(s, line)
  ELSE EventPartB(s, CapturePartB(s, p.data), line, now0, p.data)

ProcessLinePartB(s, line, now0) ==
  IF ~StartsWith(line, Marker) THEN Result(s, <<Forward(line)>>, FALSE)
  ELSE IF Includes(line, SentinelToken) THEN Result(s, <<Forward(line)>>, FALSE)
  ELSE ParsedPartB(s, line, now0, Parse(Payload(line)))

ProcessLine(v, s, line, now0) ==
  CASE v = "reasonA" -> ProcessLineReasonA(s, line, now0)
    [] v = "reasonB" -> ProcessLineReasonB(s, line, now0)
    [] v = "partA" -> ProcessLinePartA(s, line, now0)
    [] OTHER -> ProcessLinePartB(s, line, now0)

\* What the body does when reader.read() reports done, before
\* controller.close(): the footer it enqueues, and whether building it throws.
FooterAtDoneReason(cit) ==
  IF Truthy(cit)
  THEN IF cit.t # "list" THEN [enq |-> <<>>, thrown |-> TRUE]
       ELSE [enq |-> <<CitationsMessage(cit.s)>>, thrown |-> FALSE]
  ELSE [enq |-> <<>>, thrown |-> FALSE]

FooterAtDonePartA(cit) ==
  IF Truthy(cit) /\ Len(cit.s) > 0
  THEN IF cit.t # "list" THEN [enq |-> <<>>, thrown |-> TRUE]
       ELSE [enq |-> <<CitationsChunk(cit.s)>>, thrown |-> FALSE]
  ELSE [enq |-> <<>>, thrown |-> FALSE]

FooterAtDonePartB(cit) ==
  IF Len(cit.s) > 0
  THEN IF cit.t # "list" THEN [enq |-> <<>>, thrown |-> TRUE]
       ELSE [enq |-> <<CitationsData(cit.s)>>, thrown |-> FALSE]
  ELSE [enq |-> <<>>, thrown |-> FALSE]

FooterAtDone(v, cit) ==
  CASE v \in {"reasonA", "reasonB"} -> FooterAtDoneReason(cit)
    [] v = "partA" -> FooterAtDonePartA(cit)
    [] OTHER -> FooterAtDonePartB(cit)

\* ------------------------------------------------------------ the streams
\* The lines of the streams explored for the reasoning phases and the
\* pass-through, for the citations, and for the chunking.
PhaseLines ==
  {BlankLine, SentinelLine, MalformedLine, EventLine(EvReasoning),
   EventLine(EvReasoningCited), EventLine(EvReasoningNoContentKey),
   EventLine(EvReasoningEmptyContent), SpacedLine(EvContent), EventLine(EvContentCited),
   EventLine(EvEmptyDelta)}

CitationLines ==
  {SentinelLine, MalformedLine, NoSpaceLine, EventLine(EvCitations),
   EventLine(EvCitationsOther), EventLine(EvCitationsEmpty),
   EventLine(EvCitationsString), EventLine(EvReasoningCited),
   EventLine(EvContentCited), EventLine(EvUsage)}

ChunkLines ==
  {BlankLine, SentinelLine, MalformedLine, EventLine(EvReasoning),
   EventLine(EvContentCited)}

\* What may follow the last line break of a stream.
Residuals == {<<>>, <<"data:">>}

StreamsOf(catalog) == UNION {[1..n -> catalog] : n \in 0..MaxLines}

\* The text of a stream: every line with its line break, then the residue.
TextOf(ls) == Flatten([i \in DOMAIN ls |-> ls[i] \o <<"\n">>])

\* No call of window.fetch is looked at.
NoCall ==
  /\ request = <<>>
  /\ response = <<>>
  /\ fetches = 0
  /\ returned = <<>>
  /\ fpc = "idle"

InitWith(catalog, residuals, cutting) ==
  /\ variant \in Variants
  /\ cuts = cutting
  /\ input \in {Encode(TextOf(ls) \o r) : ls \in StreamsOf(catalog), r \in residuals}
  /\ pos = 0
  /\ pending = <<>>
  /\ buffer = <<>>
  /\ lines = <<>>
  /\ reasoningStarted = FALSE
  /\ reasoningEnded = FALSE
  /\ startThinkingTime = <<>>
  /\ citations = InitialCitations(variant)
  /\ citationsReceived = FALSE
  /\ responseFinished = FALSE
  /\ now = 0
  /\ out = <<>>
  /\ streamState = "readable"
  /\ readFailed = FALSE
  /\ pc = "read"
  /\ cancelled = FALSE
  /\ readsAfterCancel = 0
  /\ other = <<>>
  /\ NoCall

Init == InitWith(PhaseLines, {<<>>}, "lines")
InitCitations == InitWith(CitationLines, {<<>>}, "lines")
InitChunks == InitWith(ChunkLines, Residuals, "bytes")

\* ------------------------------------------------------------ the actions
CurrentSession ==
  Session(reasoningStarted, reasoningEnded, startThinkingTime, citations,
          citationsReceived)

\* Where the chunks end that the body underneath has enqueued: the reader of
\* its stream is handed them one by one, as they were enqueued.
ChunkEnds ==
  IF other = <<>> THEN {}
  ELSE {Len(Flatten(SubSeq(other.out, 1, k))) : k \in 1..Len(other.out)}

\* The sizes of the chunk the transport may deliver next, bytes pos+1 ..
\* pos+n: any n bytes up to MaxChunk ("bytes"), any number of whole lines
\* ("lines"), or the next chunk of the body underneath ("chunks").
ChunkSizes ==
  IF cuts = "bytes"
  THEN {n \in 1..MaxChunk : pos + n <= Len(input)}
  ELSE IF cuts = "lines"
  THEN {n \in 1..(Len(input) - pos) : input[pos + n] = "\n"}
  ELSE {n \in 1..(Len(input) - pos) :
          /\ pos + n \in ChunkEnds
          /\ \A m \in 1..(n - 1) : pos + m \notin ChunkEnds}

\* controller.enqueue(chunk), each chunk encoded: a stream that is no longer
\* readable takes none (the call throws).
Enqueue(state, queue, chunks) ==
  IF state = "readable"
  THEN queue \o [i \in DOMAIN chunks |-> Encode(chunks[i])] ELSE queue

\* controller.error(error): without effect on a stream that is not readable
ErrorStream(state) == IF state = "readable" THEN "errored" ELSE state

\* (mutant) the stream is left open when the loop ends
CloseStreamNever(state) == state

\* controller.close(): throws on a stream that is not readable
CloseStream(state) == IF state = "readable" THEN "closed" ELSE state

\* (mutant) the next read is issued while lines of the chunk are left
AfterChunkEager(ls) == "read"

\* `for (const line of lines)` runs to its end before the while loop turns
\* to `await reader.read()` again.
AfterChunk(ls) == IF ls = <<>> THEN "read" ELSE "lines"

\* The count of reads made after a cancellation, the loop going on at `at`.
ReadsIssued(at) ==
  IF cancelled /\ at = "read" THEN readsAfterCancel + 1 ELSE readsAfterCancel

\* const { done, value } = await reader.read(), done false: decode the chunk,
\* append it to the buffer, split off the complete lines, keep the rest.
Read(n) ==
  /\ pc = "read"
  /\ pos + n <= Len(input)
  /\ \E d \in {Decode(pending, SubSeq(input, pos + 1, pos + n))} :
       /\ pending' = d.pending
       /\ lines' = CompleteLines(buffer \o d.text)
       /\ buffer' = Remainder(buffer \o d.text)
  /\ pc' = AfterChunk(lines')
  /\ pos' = pos + n
  /\ readsAfterCancel' = ReadsIssued(pc')
  /\ UNCHANGED <<variant, cuts, input, reasoningStarted, reasoningEnded,
                 startThinkingTime, citations, citationsReceived, responseFinished,
                 now, out, streamState, readFailed, cancelled, other, callVars>>

\* One turn of `for (const line of lines)`.
Line ==
  /\ pc = "lines"
  /\ \E r \in {ProcessLine(variant, CurrentSession, Head(lines), now)} :
     /\ reasoningStarted' = r.s.reasoningStarted
     /\ reasoningEnded' = r.s.reasoningEnded
     /\ startThinkingTime' = r.s.startThinkingTime
     /\ citations' = r.s.citations
     /\ citationsReceived' = r.s.citationsReceived
     /\ out' = Enqueue(streamState, out, r.enq)
     /\ IF r.thrown \/ (r.enq # <<>> /\ streamState # "readable")
        THEN /\ streamState' = ErrorStream(streamState)   \* catch (error)
             /\ pc' = "exit"
             /\ lines' = lines
        ELSE /\ streamState' = streamState
             /\ lines' = Tail(lines)
             /\ pc' = AfterChunk(Tail(lines))
  /\ readsAfterCancel' = ReadsIssued(pc')
  /\ UNCHANGED <<variant, cuts, input, pos, pending, buffer, responseFinished, now,
                 readFailed, cancelled, other, callVars>>

\* reader.read() reports done: the footer, then controller.close().
Done ==
  /\ pc = "read"
  /\ pos = Len(input)
  /\ \E f \in {FooterAtDone(variant, citations)} :
     /\ out' = Enqueue(streamState, out, f.enq)
     /\ streamState' = IF f.thrown THEN ErrorStream(streamState)
                       ELSE CloseStream(streamState)
  /\ responseFinished' = (responseFinished \/ variant = "partA")
  /\ pc' = "exit"
  /\ UNCHANGED <<variant, cuts, input, pos, pending, buffer, lines, reasoningStarted,
                 reasoningEnded, startThinkingTime, citations, citationsReceived, now,
                 readFailed, cancelled, readsAfterCancel, other, callVars>>

\* reader.read() rejects: catch (error) { controller.error(error) }.
ReadFails ==
  /\ pc = "read"
  /\ streamState' = ErrorStream(streamState)
  /\ readFailed' = TRUE
  /\ pc' = "exit"
  /\ UNCHANGED <<variant, cuts, input, pos, pending, buffer, lines, reasoningStarted,
                 reasoningEnded, startThinkingTime, citations, citationsReceived,
                 responseFinished, now, out, cancelled, readsAfterCancel, other,
                 callVars>>

\* Time passes while a read is awaited.  Only the time between the first
\* reasoning fragment and the separator is ever looked at.
Tick ==
  /\ pc = "read"
  /\ reasoningStarted /\ ~reasoningEnded
  /\ now < MaxClock
  /\ now' = now + 1
  /\ UNCHANGED <<variant, cuts, input, pos, pending, buffer, lines, reasoningStarted,
                 reasoningEnded, startThinkingTime, citations, citationsReceived,
                 responseFinished, out, streamState, readFailed, pc, cancelled,
                 readsAfterCancel, other, callVars>>

Next ==
  \/ pc = "read" /\ \E n \in ChunkSizes : Read(n)
  \/ Line
  \/ Done
  \/ ReadFails
  \/ Tick

Spec == Init /\ [][Next]_vars
SpecCitations == InitCitations /\ [][Next]_vars
SpecChunks == InitChunks /\ [][Next]_vars

\* ------------------------------------------------- the run on one chunk
EncodeAll(enq) == [i \in DOMAIN enq |-> Encode(enq[i])]

\* The for loop over the lines of one chunk, all at the time now0.
RECURSIVE RunLines(_, _, _, _)
RunLines(v, r, ls, now0) ==
  IF ls = <<>> \/ r.thrown THEN r
  ELSE LET x == ProcessLine(v, r.s, Head(ls), now0)
       IN RunLines(v, [s |-> x.s, out |-> r.out \o EncodeAll(x.enq), thrown |-> x.thrown],
                   Tail(ls), now0)

\* The lines of `bytes` processed from the initial state.
LinesRun(v, bytes) ==
  RunLines(v, [s |-> InitialSession(v), out |-> <<>>, thrown |-> FALSE],
           CompleteLines(Decode(<<>>, bytes).text), 0)

\* The whole response delivered as a single chunk, then done.
OneChunk(v, bytes) ==
  LET r == LinesRun(v, bytes)
      f == FooterAtDone(v, r.s.citations)
  IN IF r.thrown THEN [out |-> r.out, streamState |-> "errored"]
     ELSE [out |-> r.out \o EncodeAll(f.enq),
           streamState |-> IF f.thrown THEN "errored" ELSE "closed"]

\* ------------------------------------------------------ reading the state
\* The bytes read so far and the lines of them already processed.
BytesRead == SubSeq(input, 1, pos)
LinesRead == CompleteLines(Decode(<<>>, BytesRead).text)
LinesProcessed == SubSeq(LinesRead, 1, Len(LinesRead) - Len(lines))

\* The output with the seconds value of every duration separator blanked.
EraseDurations(o) ==
  [i \in DOMAIN o |->
     [j \in DOMAIN o[i] |-> IF j > 1 /\ o[i][j - 1] = ThoughtFor THEN "?" ELSE o[i][j]]]

\* The two outputs are the same events, up to the seconds of the durations.
SameEvents(a, b) == a = b \/ EraseDurations(a) = EraseDurations(b)

\* The response has ended as the run r did.
EndsAs(r) == SameEvents(out, r.out) /\ streamState = r.streamState

\* --------------------------------------------------------------------- C1
\* C1: however the bytes of an input are cut into chunks, the events
\* enqueued are those enqueued when the same bytes arrive as a single chunk,
\* up to the seconds value of the duration separator: between reads the
\* output is that of the lines read so far, and when the loop has ended
\* without a failed read the output and the final state of the stream are
\* those of the one-chunk run.
ChunkingInvariant ==
  /\ (pc = "read" /\ streamState = "readable") =>
        SameEvents(out, LinesRun(variant, BytesRead).out)
  /\ (pc = "exit" /\ ~readFailed) => EndsAs(OneChunk(variant, input))

\* A read has ended inside a line and inside a two-byte character, after
\* earlier lines produced output.
ChunkingWitness ==
  /\ pc = "read"
  /\ buffer # <<>>
  /\ pending # <<>>
  /\ Len(out) >= 3
  /\ reasoningStarted

\* ------------------------------------------------ reading input and output
InputLines == CompleteLines(Decode(<<>>, input).text)

\* The line as the loop decodes it: ok when it is marked, is not a sentinel
\* and holds valid JSON.
EventOf(line) ==
  IF StartsWith(line, Marker) /\ ~Includes(line, SentinelToken)
  THEN Parse(Payload(line)) ELSE [ok |-> FALSE, data |-> EvEmptyDelta]

IsEvent(line) == EventOf(line).ok

DataOf(line) == EventOf(line).data

\* if (data?.choices?.[0]?.delta)
WithDelta(e) == e.ok /\ e.data.hasChoices /\ e.data.hasDelta

HasDelta(line) == WithDelta(EventOf(line))

\* The enqueued texts that are an event whose delta is exactly { content },
\* whatever its other fields.
ContentEvents(content) ==
  {Encode(Emit(SpreadWith(d, content))) :
     d \in {u \in Universe \cup {ContentOnly(<<>>)} : u.hasChoices /\ u.hasDelta}}

IsContentEvent(ev, content) == ev \in ContentEvents(content)

HeaderEvents == ContentEvents(HeaderText)
SeparatorEvents == UNION {ContentEvents(SeparatorText(d)) : d \in 0..MaxClock}

CitationLists == {d.citations.s : d \in {u \in Universe : u.citations.t = "list"}}

FooterEvents ==
  UNION {{Encode(CitationsMessage(c)), Encode(CitationsChunk(c)),
          Encode(CitationsData(c))} : c \in CitationLists}

IsHeader(ev) == ev \in HeaderEvents
IsSeparator(ev) == ev \in SeparatorEvents
IsFooter(ev) == ev \in FooterEvents

Headers == {i \in DOMAIN out : IsHeader(out[i])}
Separators == {i \in DOMAIN out : IsSeparator(out[i])}
Footers == {i \in DOMAIN out : IsFooter(out[i])}

Concat(o) == Flatten(o)

TracksReasoning == variant # "reasonA"

\* --------------------------------------------------------------------- C2
\* The text with '> ' put after each of its line breaks, as split and join.
QuotedText(chars) == Join(Split(chars), <<"\n", "> ">>)

\* The lines are one reasoning event with null content, then one event with
\* a content string and no reasoning.
ReasoningThenContentLines(ls) ==
  /\ Len(ls) = 2
  /\ HasDelta(ls[1])
  /\ Truthy(DataOf(ls[1]).reasoning)
  /\ DataOf(ls[1]).content.t = "null"
  /\ HasDelta(ls[2])
  /\ DataOf(ls[2]).reasoning.t = "absent"
  /\ DataOf(ls[2]).content.t = "str"

OneReasoningOneContent == ReasoningThenContentLines(InputLines)

\* The output for the two lines: header, quoted reasoning, separator, the
\* content line as it came, and nothing else but a footer.
TransformedAs(ls) ==
  /\ Len(out) \in {4, 5}
  /\ IsHeader(out[1])
  /\ IsContentEvent(out[2], QuotedText(DataOf(ls[1]).reasoning.s))
  /\ IsSeparator(out[3])
  /\ out[4] = Encode(ls[2] \o <<"\n">>)
  /\ Headers = {1}
  /\ Separators = {3}
  /\ Len(out) = 5 => IsFooter(out[5])

\* C2: in the bodies that track reasoning, a stream of one reasoning event
\* (content null) and one content event gives, in this order, one header,
\* one event with the reasoning text quoted after every line break, one
\* duration separator and the content line as it came; nothing else is
\* enqueued but the citation footer, last, when an event carried citations.
ReasoningThenContent ==
  (TracksReasoning /\ streamState = "closed" /\ OneReasoningOneContent) =>
     TransformedAs(InputLines)

\* Such a stream, with line breaks in its reasoning, has been transformed.
ReasoningThenContentWitness ==
  /\ TracksReasoning /\ streamState = "closed" /\ OneReasoningOneContent
  /\ Includes(DataOf(InputLines[1]).reasoning.s, "\n")
  /\ Len(out) = 4

\* --------------------------------------------------------------------- C3
NoReasoningIn(ls) == \A i \in DOMAIN ls :
  IsEvent(ls[i]) => DataOf(ls[i]).reasoning.t = "absent"

NoCitationsIn(ls) == \A i \in DOMAIN ls :
  IsEvent(ls[i]) => DataOf(ls[i]).citations.t = "absent"

NoReasoningField == NoReasoningIn(InputLines)

NoCitationsField == NoCitationsIn(InputLines)

EndsWithLineBreak == input = <<>> \/ input[Len(input)] = "\n"

Reserialized(line) ==
  IF IsEvent(line) THEN Emit(DataOf(line)) ELSE line \o <<"\n">>

ReserializedAll(ls) == Encode(Flatten([i \in DOMAIN ls |-> Reserialized(ls[i])]))

ReasoningNull(e) ==
  WithDelta(e) /\ Truthy(e.data.reasoning) /\ e.data.content.t = "null"

\* The event carries a reasoning fragment and null content.
IsReasoningEvent(line) == ReasoningNull(EventOf(line))

WithReasoningField(e) == e.ok /\ e.data.reasoning.t # "absent"

CarriesReasoning(line) == WithReasoningField(EventOf(line))

AnswerText(e) == WithDelta(e) /\ e.data.content.t = "str" /\ e.data.content.s # <<>>

HasAnswerText(line) == AnswerText(EventOf(line))

SomeReasoningEvent(ls) == \E i \in DOMAIN ls : IsReasoningEvent(ls[i])

NoReasoningFieldIn(ls) == \A i \in DOMAIN ls : ~CarriesReasoning(ls[i])

AnswerAfterReasoning(ls) == \E i, j \in DOMAIN ls :
  i < j /\ IsReasoningEvent(ls[i]) /\ HasAnswerText(ls[j])

\* One header and one separator when a reasoning event came, neither when
\* no reasoning field did.
OneOfEach(ls, hs, ss) ==
  /\ SomeReasoningEvent(ls) => Cardinality(hs) = 1 /\ Cardinality(ss) = 1
  /\ NoReasoningFieldIn(ls) => hs = {} /\ ss = {}

\* C4 as stated, for the responses in which an event carries a reasoning
\* fragment with null content and for those without any reasoning field:
\* one header and one separator in the former, neither in the latter.
ExactlyOneHeaderAndSeparator ==
  (TracksReasoning /\ streamState = "closed") => OneOfEach(InputLines, Headers, Separators)

\* At most one header and one separator, the separator after the header.
AtMostOnce(hs, ss) ==
  /\ Cardinality(hs) <= 1
  /\ Cardinality(ss) <= 1
  /\ \A j \in ss : \E i \in hs : i < j

\* The markers of a complete response, by what its lines carried.
MarkersFor(ls, hs, ss) ==
  /\ SomeReasoningEvent(ls) => Cardinality(hs) = 1
  /\ AnswerAfterReasoning(ls) => Cardinality(ss) = 1
  /\ NoReasoningFieldIn(ls) => hs = {} /\ ss = {}

\* C4 as amended: in the bodies that track reasoning, at most one header
\* and at most one separator are ever enqueued, and a separator only after
\* the header; when the response is complete there is exactly one header if
\* some event carried non-empty reasoning with null content, exactly one
\* separator if an event with a non-empty content string came after such an
\* event, and neither marker if no event carries a reasoning field.
MarkersAtMostOnce ==
  /\ AtMostOnce(Headers, Separators)
  /\ (TracksReasoning /\ streamState = "closed") =>
       MarkersFor(InputLines, Headers, Separators)

\* Two reasoning fragments, then content: one header, one separator.
MarkersWitness ==
  /\ streamState = "closed"
  /\ Len(InputLines) = 3
  /\ IsReasoningEvent(InputLines[1]) /\ IsReasoningEvent(InputLines[2])
  /\ HasAnswerText(InputLines[3])
  /\ Cardinality(Headers) = 1 /\ Cardinality(Separators) = 1

\* --------------------------------------------------------------------- C5
\* The citation store holds a captured value.
StoreHolds == IF variant = "partB" THEN citationsReceived ELSE Truthy(citations)

WithCitations(e) == e.ok /\ Truthy(e.data.citations)

CarriesCitations(line) == WithCitations(EventOf(line))

WithCitationList(e) ==
  e.ok /\ e.data.citations.t = "list" /\ e.data.citations.s # <<>>

CarriesCitationList(line) == WithCitationList(EventOf(line))

\* The citations of the first of the lines that carries any.
FirstCitations(ls) ==
  LET i == CHOOSE i \in DOMAIN ls :
             CarriesCitations(ls[i]) /\ \A j \in 1..(i - 1) : ~CarriesCitations(ls[j])
  IN DataOf(ls[i]).citations

FootersOf(c) ==
  {Encode(CitationsMessage(c)), Encode(CitationsChunk(c)), Encode(CitationsData(c))}

\* Every citations field of the response is a non-empty list of strings.
CitationsAreLists == \A i \in DOMAIN InputLines :
  IsEvent(InputLines[i]) =>
    DataOf(InputLines[i]).citations.t = "absent" \/ CarriesCitationList(InputLines[i])

\* C5: in a response whose citations fields are non-empty lists, what the
\* store holds is the first citations list of the response, and every footer
\* enqueued lists that first list.
CapturedIsFirst ==
  LET ls == LinesProcessed
      some == \E i \in DOMAIN ls : CarriesCitations(ls[i])
  IN CitationsAreLists =>
       /\ StoreHolds => (some /\ citations = FirstCitations(ls))
       /\ \A k \in Footers : some /\ out[k] \in FootersOf(FirstCitations(ls).s)

\* --------------------------------------------------------------------- C6
\* C6: a complete response whose citations fields are non-empty lists, one
\* at least, has exactly one footer (the reason.js bodies).
ExactlyOneFooter ==
  (variant \in {"reasonA", "reasonB"} /\ streamState = "closed"
   /\ CitationsAreLists
   /\ \E i \in DOMAIN InputLines : CarriesCitationList(InputLines[i]))
  => Cardinality(Footers) = 1

\* --------------------------------------------------------------------- C7
SentinelsOut == {i \in DOMAIN out : out[i] = Encode(Forward(SentinelLine))}

\* C7: when a citations list was captured before a sentinel line, the
\* footer is in the output before that sentinel line, and no footer follows
\* a sentinel line.
FooterBeforeSentinel ==
  (streamState = "closed"
   /\ \E i, j \in DOMAIN InputLines :
         i < j /\ CarriesCitationList(InputLines[i]) /\ InputLines[j] = SentinelLine)
  => /\ \E f \in Footers : \A k \in SentinelsOut : f < k
     /\ \A f \in Footers : \A k \in SentinelsOut : f < k

\* --------------------------------------------------------------------- C8
\* The enqueued text has a citations key whose value is a list.
CarriesRawCitations(ev) ==
  \E j \in 1..(Len(ev) - 1) : ev[j] = "\"citations\":" /\ ev[j + 1] = "["

\* C8: nothing that partB enqueues carries the raw citations list of an
\* input event.
NoRawCitations ==
  variant = "partB" => \A i \in DOMAIN out : ~CarriesRawCitations(out[i])

\* --------------------------------------------------------------------- C9
\* A 'data: ' line that is no sentinel and whose payload is not valid JSON.
IsMalformed(line) ==
  StartsWith(line, Marker) /\ ~Includes(line, SentinelToken) /\ ~Parse(Payload(line)).ok

ErrorOnlyOnReadFailure == (streamState = "errored") <=> readFailed

\* ------------------------------------------------- the batch document
MaxText == 4   \* characters in the reasoning text of a batch document

\* The body of a non-streaming response, parsed: { id?, choices?: [{
\* message?: { reasoning?, content? } }], citations? }.
Doc(id, hasChoices, hasMessage, reasoning, content, cit) ==
  [id |-> id, hasChoices |-> hasChoices, hasMessage |-> hasMessage,
   reasoning |-> reasoning, content |-> content, citations |-> cit]

\* A document whose first choice has a message.
Answer(reasoning, content, cit) == Doc(Absent, TRUE, TRUE, reasoning, content, cit)

\* JSON.stringify(data) of a document
StringifyDoc(doc) ==
  LET message == Object(Member("\"reasoning\":", doc.reasoning)
                        \o Member("\"content\":", doc.content))
      choice == Object(IF doc.hasMessage
                       THEN << <<"\"message\":">> \o message >> ELSE <<>>)
  IN Object(Member("\"id\":", doc.id)
            \o (IF doc.hasChoices
                THEN << <<"\"choices\":[">> \o choice \o <<"]">> >> ELSE <<>>)
            \o Member("\"citations\":", doc.citations))

\* The reasoning texts: every text of up to MaxText characters.
TextAlphabet == {"a", " ", "\n"}
Texts == UNION {[1..n -> TextAlphabet] : n \in 0..MaxText}
SampleTexts == {<<"a", "\n", "b">>, <<"a", "\n", "\n", " ", "\n", "b">>}

OriginalContent == Str(<<"x", "\n", "y">>)

CitationValues == {Absent, Null, List(<<>>), U12, Str(<<"s">>)}

\* Every document a response body of the model can hold.
Docs ==
  {Answer(Str(r), OriginalContent, Absent) : r \in Texts}
  \cup {Answer(r, OriginalContent, c) :
          r \in {Absent, Null, Num("5"), Str(<<>>)} \cup {Str(x) : x \in SampleTexts},
          c \in CitationValues}
  \cup {Answer(Str(<<"a">>), c, U12) : c \in {Absent, Null}}
  \cup {Doc(Num("7"), FALSE, FALSE, Absent, Absent, U12),
        Doc(Num("7"), TRUE, FALSE, Absent, Absent, Absent),
        Doc(Absent, FALSE, FALSE, Absent, Absent, Absent)}

StringifyDocTable == {<<StringifyDoc(d), d>> : d \in Docs}

\* The documents whose serialisation is the token sequence p.
ParsedDoc(p) == {e[2] : e \in {x \in StringifyDocTable : x[1] = p}}

DocResult(hits) ==
  IF hits = {} THEN [ok |-> FALSE, data |-> Doc(Absent, FALSE, FALSE, Absent, Absent, Absent)]
  ELSE [ok |-> TRUE, data |-> CHOOSE d \in hits : TRUE]

\* await cloned.json(): the body read to its end and parsed; a body that is
\* no JSON text makes it reject.
Json(body) == DocResult(ParsedDoc(SelectSeq(body, LAMBDA tok : tok # WS)))

\* The document as a server may send it, with white space after the brace.
SpacedBody(doc) == LET p == StringifyDoc(doc) IN <<Head(p), WS>> \o Tail(p)

MalformedBody == <<"<html>">>

\* ------------------------------------------- processNonStreamingResponse
Whitespace == {" ", "\t", "\r"}

\* line.trim(): the line without the white space at its two ends
Trim(line) ==
  LET inked == {i \in DOMAIN line : line[i] \notin Whitespace}
  IN IF inked = {} THEN <<>>
     ELSE SubSeq(line, CHOOSE i \in inked : \A j \in inked : i <= j,
                 CHOOSE i \in inked : \A j \in inked : i >= j)

\* (mutant) every line takes the marker with its space
QuoteLinePadded(line) == <<"> ">> \o line

\* line => (line.trim() ? `> ${line}` : '>')
QuoteLine(line) == IF Trim(line) # <<>> THEN <<"> ">> \o line ELSE <<">">>

\* message.reasoning.split('\n').map(...).join('\n')
QuotedReasoning(text) ==
  LET ls == Split(text) IN Join([i \in DOMAIN ls |-> QuoteLine(ls[i])], <<"\n">>)

\* '\n\n---\n\n'
Rule == <<"\n", "\n", "---", "\n", "\n">>

\* `${value}` in a template literal
TemplateText(v) ==
  CASE v.t = "absent" -> <<"undefined">>
    [] v.t = "null" -> <<"null">>
    [] OTHER -> v.s

\* `${quotedReasoning}\n\n---\n\n---\n\n${message.content}`; the second body
\* of part_000 has `${quotedReasoning}\n\n---\n\n${message.content}`.
ContentWithoutCitations(v, quoted, content) ==
  IF v = "partB" THEN quoted \o Rule \o TemplateText(content)
  ELSE quoted \o Rule \o Rule \o TemplateText(content)

\* (mutant) the citation list is appended to the content without citations
ContentWithCitationsAppended(v, quoted, content, cit) ==
  ContentWithoutCitations(v, quoted, content) \o Rule \o CitationsTextSpaced(cit)

\* `${quotedReasoning}\n\n---\n\n${message.content}\n\n---\n\n${data.citations
\*    .map((citation, i) => `[${i + 1}] > ${citation}`).join("\n")}`
ContentWithCitations(v, quoted, content, cit) ==
  quoted \o Rule \o TemplateText(content) \o Rule \o CitationsTextSpaced(cit)

\* (mutant) the test of the reasoning field is left out
HasReasoningAlways(doc) == doc.reasoning.t = "str"

\* data?.choices?.[0]?.message?.reasoning
HasReasoning(doc) == doc.hasChoices /\ doc.hasMessage /\ Truthy(doc.reasoning)

\* The body of the `if`: the document with its content rewritten, or the
\* TypeError of .split on what is no string, of .map on what is no list.
Rewrite(v, doc) ==
  IF doc.reasoning.t # "str" THEN [thrown |-> TRUE, data |-> doc]
  ELSE IF ~Truthy(doc.citations)
  THEN [thrown |-> FALSE,
        data |-> [doc EXCEPT !.content =
                    Str(ContentWithoutCitations(v, QuotedReasoning(doc.reasoning.s),
                                                doc.content))]]
  ELSE IF doc.citations.t # "list" THEN [thrown |-> TRUE, data |-> doc]
  ELSE [thrown |-> FALSE,
        data |-> [doc EXCEPT !.content =
                    Str(ContentWithCitations(v, QuotedReasoning(doc.reasoning.s),
                                             doc.content, doc.citations.s))]]

\* --------------------------------------------------------- the responses
\* A header list: a set of <<name, value>> pairs, one value per name.
HeaderGet(headers, name) ==
  IF \E h \in headers : h[1] = name
  THEN Str(<<(CHOOSE h \in headers : h[1] = name)[2]>>) ELSE Null

JsonHeaders == {<<"content-type", "application/json">>, <<"x-request-id", "r1">>}
StreamHeaders == {<<"content-type", "text/event-stream">>, <<"x-request-id", "r1">>}
BareHeaders == {<<"x-request-id", "r1">>}

\* A response: `own` tells the object originalFetch resolved with from one
\* made by new Response; `body` is <<>> with hasBody FALSE where response.body
\* is null; `type` is what the body is made from, `used` that it was read.
ResponseOf(own, status, statusText, headers, hasBody, type, body) ==
  [settled |-> "fulfilled", own |-> own, status |-> status,
   statusText |-> statusText, headers |-> headers, hasBody |-> hasBody,
   type |-> type, body |-> body, used |-> FALSE]

\* A promise that rejected.
Rejected ==
  [settled |-> "rejected", own |-> FALSE, status |-> 0, statusText |-> "",
   headers |-> {}, hasBody |-> FALSE, type |-> "none", body |-> <<>>, used |-> FALSE]

\* The promise of a call of originalFetch that the wrapper returns as it is.
Transport ==
  [settled |-> "transport", own |-> TRUE, status |-> 0, statusText |-> "",
   headers |-> {}, hasBody |-> FALSE, type |-> "none", body |-> <<>>, used |-> FALSE]

Bodies ==
  {StringifyDoc(d) : d \in Docs}
  \cup {SpacedBody(Answer(r, OriginalContent, U12)) : r \in {Absent, Str(<<"a">>)}}
  \cup {MalformedBody}

\* What originalFetch can resolve with.
Responses ==
  {ResponseOf(TRUE, e[1], e[2], e[3], TRUE, "network", b) :
     e \in {<<200, "OK", JsonHeaders>>, <<200, "OK", BareHeaders>>,
            <<500, "Internal Server Error", JsonHeaders>>},
     b \in Bodies}
  \cup {ResponseOf(TRUE, 200, "OK", StreamHeaders, TRUE, "network", <<>>),
        ResponseOf(TRUE, 204, "No Content", StreamHeaders, FALSE, "none", <<>>),
        ResponseOf(TRUE, 204, "No Content", BareHeaders, FALSE, "none", <<>>)}

\* The media type new Response gives a body of the type, if any.
MediaType(type) == IF type = "string" THEN Str(<<"text/plain;charset=UTF-8">>) ELSE Null

\* new Response(body, { status, statusText, headers }): the header list is
\* filled from init.headers, and a body with a media type adds Content-Type
\* to a header list that has none.
NewResponse(type, body, init) ==
  ResponseOf(FALSE, init.status, init.statusText,
             IF MediaType(type).t = "str" /\ HeaderGet(init.headers, "content-type").t = "null"
             THEN init.headers \cup {<<"content-type", MediaType(type).s[1]>>}
             ELSE init.headers,
             TRUE, type, body)

\* (mutant) a failure in the try block rejects the promise
OnErrorRejects(r) == Rejected

\* catch (error) { console.error(...) } and then `return response`
OnError(r) == r

\* processNonStreamingResponse(response), variant v
ProcessNonStreamingResponse(v, r) ==
  IF ~r.hasBody THEN OnError(r)                 \* cloned.json() rejects
  ELSE LET parsed == Json(r.body)
       IN IF ~parsed.ok THEN OnError(r)         \* cloned.json() rejects
          ELSE IF ~HasReasoning(parsed.data) THEN r
          ELSE LET w == Rewrite(v, parsed.data)
               IN IF w.thrown THEN OnError(r)
                  ELSE NewResponse("string", StringifyDoc(w.data), r)

\* processStreamingResponse(response): response.body.getReader() throws on a
\* null body; the response is built around the new stream at once.
ProcessStreamingResponse(v, r) ==
  IF ~r.hasBody THEN Rejected ELSE NewResponse("stream", r.body, r)

\* ------------------------------------------------------------ window.fetch
\* args[0]: a string that holds the endpoint, another string, an object
\* that is no string (a Request, a URL), or nothing.
Urls == {"endpoint", "elsewhere", "object", "undefined"}

\* options.body: nothing, text that is no JSON, the JSON text null, or an
\* object { model?, messages? } of which `last` tells the last message: there
\* is none, it asks for a title, or it is any other.
RequestBody(kind, model, last) == [kind |-> kind, model |-> model, last |-> last]

RequestBodies ==
  {RequestBody(k, Absent, "none") : k \in {"undefined", "malformed", "null"}}
  \cup {RequestBody("object", m, l) :
          m \in {Absent, Num("5"), Str(<<"gpt">>), Str(<<"deepseek">>),
                 Str(<<"reasoning">>)},
          l \in {"none", "title", "chat"}}

\* url && url.includes(DEEPSEEK_API_URL): thrown where url has no includes
IsDeepseekURL(url) ==
  [thrown |-> url = "object", value |-> url = "endpoint"]

\* !!body.model && (body.model.includes('deepseek') ||
\* body.model.includes('reasoning')): thrown where body is null or the model
\* is no string
IsDeepseekModel(body) ==
  IF body.kind = "null" \/ body.model.t = "num" THEN [thrown |-> TRUE, value |-> FALSE]
  ELSE [thrown |-> FALSE,
        value |-> Truthy(body.model)
                  /\ (Includes(body.model.s, "deepseek")
                      \/ Includes(body.model.s, "reasoning"))]

\* the last message starts with the title prompt
IsTitleRequest(body) == body.last = "title"

\* Steps 1 to 4 of the wrapper: "pass" where it returns originalFetch's
\* promise, "thrown" where the catch block does, "intercept" otherwise.
Classify(req) ==
  IF IsDeepseekURL(req.url).thrown THEN "thrown"
  ELSE IF ~IsDeepseekURL(req.url).value THEN "pass"
  ELSE IF req.body.kind \in {"undefined", "malformed"} THEN "pass"
  ELSE IF IsDeepseekModel(req.body).thrown THEN "thrown"
  ELSE IF ~IsDeepseekModel(req.body).value \/ IsTitleRequest(req.body) THEN "pass"
  ELSE "intercept"

\* No response is being read.
NoStream ==
  /\ cuts = "lines"
  /\ input = <<>>
  /\ pos = 0
  /\ pending = <<>>
  /\ buffer = <<>>
  /\ lines = <<>>
  /\ reasoningStarted = FALSE
  /\ reasoningEnded = FALSE
  /\ startThinkingTime = <<>>
  /\ citations = InitialCitations(variant)
  /\ citationsReceived = FALSE
  /\ responseFinished = FALSE
  /\ now = 0
  /\ out = <<>>
  /\ streamState = "readable"
  /\ readFailed = FALSE
  /\ pc = "idle"
  /\ cancelled = FALSE
  /\ readsAfterCancel = 0
  /\ other = <<>>

streamVars ==
  <<variant, cuts, input, pos, pending, buffer, lines, reasoningStarted,
    reasoningEnded, startThinkingTime, citations, citationsReceived,
    responseFinished, now, out, streamState, readFailed, pc, cancelled,
    readsAfterCancel, other>>

\* window.fetch(url, options) has been called.
InitFetch ==
  /\ variant \in Variants
  /\ NoStream
  /\ request \in [url : Urls, body : RequestBodies]
  /\ response = <<>>
  /\ fetches = 0
  /\ returned = <<>>
  /\ fpc = "called"

\* response.headers.get('content-type')?.includes('text/event-stream')
IsEventStream(r) ==
  /\ Truthy(HeaderGet(r.headers, "content-type"))
  /\ Includes(HeaderGet(r.headers, "content-type").s, "text/event-stream")

\* Steps 1 to 5: the call either hands out the promise of originalFetch, from
\* one of the early returns or from the catch block, or awaits it.
Enter ==
  /\ fpc = "called"
  /\ fetches' = fetches + 1
  /\ IF Classify(request) = "intercept"
     THEN fpc' = "awaiting" /\ returned' = returned
     ELSE fpc' = "returned" /\ returned' = Transport
  /\ UNCHANGED <<streamVars, request, response>>

\* `await originalFetch.apply(this, args)` resolves with r: steps 6 and 7.
Resolve(r) ==
  /\ fpc = "awaiting"
  /\ response' = r
  /\ IF IsEventStream(r)
     THEN fpc' = "returned" /\ returned' = ProcessStreamingResponse(variant, r)
     ELSE fpc' = "batch" /\ returned' = returned
  /\ UNCHANGED <<streamVars, request, fetches>>

\* `return processNonStreamingResponse(response)`
Batch ==
  /\ fpc = "batch"
  /\ returned' = ProcessNonStreamingResponse(variant, response)
  /\ fpc' = "returned"
  /\ UNCHANGED <<streamVars, request, response, fetches>>

\* `await originalFetch.apply(this, args)` rejects: the catch block returns
\* originalFetch.apply(this, args).
Reject ==
  /\ fpc = "awaiting"
  /\ fetches' = fetches + 1
  /\ returned' = Transport
  /\ fpc' = "returned"
  /\ UNCHANGED <<streamVars, request, response>>

NextFetch ==
  \/ Enter
  \/ \E r \in Responses : Resolve(r)
  \/ Batch
  \/ Reject

SpecFetch == InitFetch /\ [][NextFetch]_vars

\* ------------------------------------------------ reading a finished call
\* processNonStreamingResponse has returned.
BatchReturned == fpc = "returned" /\ response # <<>> /\ ~IsEventStream(response)

\* The body of the original response read as a document; a null body reads
\* as the empty text, which is none.
BodyRead == {Json(response.body)}

\* The first choice's message has a reasoning text.
ReasoningPresent(doc) ==
  doc.hasChoices /\ doc.hasMessage /\ doc.reasoning.t = "str" /\ doc.reasoning.s # <<>>

\* The returned response is a new one whose body is the document with the
\* content given and nothing else changed.
RewrittenTo(doc, content) ==
  /\ returned.settled = "fulfilled"
  /\ ~returned.own
  /\ returned.body = StringifyDoc([doc EXCEPT !.content = Str(content)])

\* -------------------------------------------------------------------- C11
\* C11: for a document whose first choice's message has no reasoning field
\* (absent, null or the empty string), with or without citations,
\* processNonStreamingResponse returns the original response, body included.
NoReasoningReturnsOriginal ==
  BatchReturned =>
    \A j \in BodyRead :
      (j.ok /\ j.data.reasoning \in {Absent, Null, Str(<<>>)})
        => /\ returned = response
           /\ returned.own
           /\ returned.body = response.body

\* A document with citations and an empty reasoning came back as it was.
NoReasoningWitness ==
  /\ BatchReturned
  /\ \E j \in BodyRead :
       j.ok /\ j.data.reasoning = Str(<<>>) /\ j.data.citations = U12
  /\ returned = response

\* -------------------------------------------------------------------- C12
\* C12: for a document with reasoning and without citations, in every
\* variant, the rewritten content is the quoted reasoning, two rules, then
\* the original content.
TwoRulesWithoutCitations ==
  BatchReturned =>
    \A j \in BodyRead :
      (j.ok /\ ReasoningPresent(j.data) /\ j.data.citations = Absent
         /\ j.data.content.t = "str")
        => RewrittenTo(j.data, QuotedReasoning(j.data.reasoning.s) \o Rule \o Rule
                               \o j.data.content.s)

\* -------------------------------------------------------------------- C13
\* '[i] > citation', numbered from 1, one per line
CitationEntry(i, c) == <<"[", ToString(i), "] > ", c>>
NumberedList(cit) == Join([i \in DOMAIN cit |-> CitationEntry(i, cit[i])], <<"\n">>)

\* A document with reasoning, a content text and a list of citations.
ReasoningAndCitations(j) ==
  /\ j.ok
  /\ ReasoningPresent(j.data)
  /\ j.data.citations.t = "list"
  /\ j.data.content.t = "str"

BlankText(line) == \A k \in DOMAIN line : line[k] \in Whitespace

\* The lines qs are the lines ts, each quoted.
QuotesLineByLine(qs, ts) ==
  /\ Len(qs) = Len(ts)
  /\ \A i \in DOMAIN ts :
       qs[i] = IF BlankText(ts[i]) THEN <<">">> ELSE <<"> ">> \o ts[i]

\* C14: the quoted reasoning of a rewritten document has the lines of the
\* reasoning, every non-blank line behind '> ' and every empty or
\* white-space line replaced by '>'; 'a\nb' becomes '> a\n> b'.
QuotingKeepsLines ==
  /\ QuotedReasoning(<<"a", "\n", "b">>) = <<"> ", "a", "\n", "> ", "b">>
  /\ BatchReturned =>
       \A j \in BodyRead :
         (j.ok /\ ReasoningPresent(j.data) /\ j.data.citations = Absent)
           => \A q \in {QuotedReasoning(j.data.reasoning.s)} :
                /\ QuotesLineByLine(Split(q), Split(j.data.reasoning.s))
                /\ RewrittenTo(j.data, ContentWithoutCitations(variant, q, j.data.content))

\* A reasoning with a white-space line between two others has been quoted.
QuotingWitness ==
  /\ BatchReturned
  /\ \E j \in BodyRead : j.ok /\ j.data.reasoning = Str(<<"a", "\n", " ", "\n">>)
  /\ ~returned.own

\* -------------------------------------------------------------------- C15
\* Parsing or rewriting the body fails: it is no JSON text, the reasoning is
\* no string or the citations are no list.
BatchFails(j) ==
  \/ ~j.ok
  \/ /\ HasReasoning(j.data)
     /\ \/ j.data.reasoning.t # "str"
        \/ Truthy(j.data.citations) /\ j.data.citations.t # "list"

\* C15: processNonStreamingResponse never rejects, and where parsing or
\* rewriting fails it returns the original response, its body unread.
BatchNeverThrows ==
  BatchReturned
    => /\ returned.settled = "fulfilled"
       /\ \A j \in BodyRead : BatchFails(j) => (returned = response /\ ~returned.used)

\* A body that fails in the rewriting has been returned: its reasoning is a
\* text and its citations are a string.
BatchFailsWitness ==
  /\ BatchReturned
  /\ \E j \in BodyRead :
       BatchFails(j) /\ j.ok /\ j.data.citations = Str(<<"s">>)
  /\ returned = response

\* -------------------------------------------------------------------- C16
\* C16: a response built by the wrapper has the status, the status text and
\* the headers of the original.
EnvelopeKept ==
  (fpc = "returned" /\ returned.settled = "fulfilled" /\ ~returned.own)
    => /\ returned.status = response.status
       /\ returned.statusText = response.statusText
       /\ returned.headers = response.headers

\* -------------------------------------------------------------------- C18
\* C18: a call of the wrapper that has returned has invoked originalFetch
\* exactly once.
FetchedOnce == fpc = "returned" => fetches = 1

\* ------------------------------------------------------------ cancellation
\* The consumer cancels the output stream while the loop awaits a read.  The
\* stream closes; the underlying source passed to new ReadableStream has a
\* start method only, so nothing is told to the loop or to the reader.
Cancel ==
  /\ pc = "read"
  /\ streamState = "readable"
  /\ cancelled' = TRUE
  /\ streamState' = "closed"
  /\ UNCHANGED <<variant, cuts, input, pos, pending, buffer, lines, reasoningStarted,
                 reasoningEnded, startThinkingTime, citations, citationsReceived,
                 responseFinished, now, out, readFailed, pc, readsAfterCancel, other,
                 callVars>>

NextCancel ==
  \/ Next
  \/ Cancel

\* Streams of whole lines, cut at any byte.
InitCancel == InitWith(ChunkLines, {<<>>}, "bytes")

SpecCancel == InitCancel /\ [][NextCancel]_vars

\* -------------------------------------------------------------------- C17
\* C17: once the consumer has cancelled the output stream, the loop makes no
\* further read on the underlying reader.
CancelStopsReads == cancelled => readsAfterCancel = 0

\* ------------------------------------------------------ two responses
\* What one call of processStreamingResponse owns: its reader with the bytes
\* to come, its decoder, the variables declared in its body, its output
\* stream and the place its loop is at.
Closure ==
  [input |-> input, pos |-> pos, pending |-> pending, buffer |-> buffer,
   lines |-> lines, reasoningStarted |-> reasoningStarted,
   reasoningEnded |-> reasoningEnded, startThinkingTime |-> startThinkingTime,
   citations |-> citations, citationsReceived |-> citationsReceived,
   responseFinished |-> responseFinished, out |-> out, streamState |-> streamState,
   readFailed |-> readFailed, pc |-> pc]

\* The call right after the stream was constructed, the bytes still to come.
FreshClosure(v, bytes) ==
  [input |-> bytes, pos |-> 0, pending |-> <<>>, buffer |-> <<>>, lines |-> <<>>,
   reasoningStarted |-> FALSE, reasoningEnded |-> FALSE, startThinkingTime |-> <<>>,
   citations |-> InitialCitations(v), citationsReceived |-> FALSE,
   responseFinished |-> FALSE, out |-> <<>>, streamState |-> "readable",
   readFailed |-> FALSE, pc |-> "read"]

\* (mutant) the variable is declared once for all calls
LocalShared(running, suspended) == running

\* `let buffer = ''` and the like stand inside processStreamingResponse: the
\* call that goes on finds the value it left, whatever the call that ran in
\* between did to its own.
Local(running, suspended) == suspended

\* The bodies of the two responses.
PairInputs ==
  {Encode(TextOf(ls)) :
     ls \in {<<EventLine(EvReasoningCited)>>, <<EventLine(EvContentCited), SentinelLine>>}}

InitPair ==
  /\ variant \in Variants
  /\ cuts = "bytes"
  /\ input \in PairInputs
  /\ pos = 0
  /\ pending = <<>>
  /\ buffer = <<>>
  /\ lines = <<>>
  /\ reasoningStarted = FALSE
  /\ reasoningEnded = FALSE
  /\ startThinkingTime = <<>>
  /\ citations = InitialCitations(variant)
  /\ citationsReceived = FALSE
  /\ responseFinished = FALSE
  /\ now = 0
  /\ out = <<>>
  /\ streamState = "readable"
  /\ readFailed = FALSE
  /\ pc = "read"
  /\ cancelled = FALSE
  /\ readsAfterCancel = 0
  /\ other \in {FreshClosure(variant, b) : b \in PairInputs}
  /\ NoCall

\* The running call is suspended in `await reader.read()`, or has ended, and
\* the other call goes on.
Switch ==
  /\ other # <<>>
  /\ pc \in {"read", "exit"}
  /\ other' = Closure
  /\ input' = other.input
  /\ pos' = other.pos
  /\ pending' = other.pending
  /\ buffer' = Local(buffer, other.buffer)
  /\ lines' = other.lines
  /\ reasoningStarted' = Local(reasoningStarted, other.reasoningStarted)
  /\ reasoningEnded' = Local(reasoningEnded, other.reasoningEnded)
  /\ startThinkingTime' = Local(startThinkingTime, other.startThinkingTime)
  /\ citations' = Local(citations, other.citations)
  /\ citationsReceived' = Local(citationsReceived, other.citationsReceived)
  /\ responseFinished' = other.responseFinished
  /\ out' = other.out
  /\ streamState' = other.streamState
  /\ readFailed' = other.readFailed
  /\ pc' = other.pc
  /\ UNCHANGED <<variant, cuts, now, cancelled, readsAfterCancel, callVars>>

NextPair ==
  \/ Next
  \/ Switch

SpecPair == InitPair /\ [][NextPair]_vars

\* -------------------------------------------------------------------- C19
\* The call r of variant v stands where it would stand had it run alone on
\* its bytes: between reads its output is that of the lines read so far,
\* and once ended without a failed read its output and stream are those of
\* the run on one chunk.
AsAlone(v, r) ==
  /\ (r.pc = "read" /\ r.streamState = "readable")
       => SameEvents(r.out, LinesRun(v, SubSeq(r.input, 1, r.pos)).out)
  /\ (r.pc = "exit" /\ ~r.readFailed)
       => \A o \in {OneChunk(v, r.input)} :
            SameEvents(r.out, o.out) /\ r.streamState = o.streamState

\* C19: of two responses transformed with their reads interleaved in any
\* order, each has the output it has when transformed alone.
NoInterference == other # <<>> => (AsAlone(variant, Closure) /\ AsAlone(variant, other))

\* Both calls await a read in the middle of a line, each with its own partial
\* line, citations captured by one of them.
NoInterferenceWitness ==
  /\ other # <<>>
  /\ pc = "read"
  /\ other.pc = "read"
  /\ buffer # <<>>
  /\ other.buffer # <<>>
  /\ buffer # other.buffer
  /\ out # <<>>
  /\ other.out = <<>>

\* -------------------------------------------------------------------- C20
\* C20: a read is awaited only when no line of an earlier chunk is left; a
\* chunk is taken from the reader only then, and taking it enqueues nothing;
\* the lines of a chunk are processed one after the other, in order, and
\* events are enqueued only while no read is being made.
OneReadAtATime ==
  /\ [](pc = "read" => lines = <<>>)
  /\ [][/\ pos' # pos => (pc = "read" /\ lines = <<>> /\ out' = out)
        /\ out' # out => pos' = pos
        /\ (pc = "lines" /\ pc' # "exit") => lines' = Tail(lines)]_vars

\* A read is awaited after a chunk of two lines or more has been processed.
OneReadWitness ==
  /\ pc = "read"
  /\ pos < Len(input)
  /\ Len(LinesRead) >= 2
  /\ Len(out) >= 2

\* ------------------------------------------------- the phases of a response
\* The lines of the streams explored for the transitions of the reasoning
\* phase: reasoning with content null and with no content key, content as a
\* string and as null, a delta with neither, a content text holding the
\* sentinel token, the sentinel, and content with citations.
TransitionLines ==
  {EventLine(EvReasoning), EventLine(EvReasoningNoContentKey), EventLine(EvContent),
   EventLine(EvContentNull), EventLine(EvEmptyDelta), EventLine(EvContentDone),
   SentinelLine, EventLine(EvContentCited)}

InitPhases == InitWith(TransitionLines, {<<>>}, "lines")
SpecPhases == InitPhases /\ [][Next]_vars

\* The phase of the reasoning session.
Phase ==
  IF reasoningEnded THEN "Ended"
  ELSE IF reasoningStarted THEN "Active" ELSE "NotStarted"

\* The line the for loop is at, and the event on it.
AtLine == pc = "lines" /\ lines # <<>>
AtEvent == AtLine /\ TracksReasoning /\ HasDelta(Head(lines))
Current == DataOf(Head(lines))

\* What the step has enqueued.
Enqueued(o1, o2) == SubSeq(o2, Len(o1) + 1, Len(o2))

\* The line is forwarded unchanged: as it came, or as its parsed object
\* serialised again without its citations field.
ForwardedUnchanged(line) ==
  {<<Encode(Forward(line))>>, <<Encode(Emit(CleanData(DataOf(line))))>>}

\* -------------------------------------------------------------------- C21
\* C21: once the phase is Ended it stays Ended, and every event with a
\* delta that is processed afterwards is forwarded unchanged: one text is
\* enqueued for it, the event itself, and neither a quoted reasoning event
\* nor a header nor a separator.
EndedIsTerminal ==
  /\ [][reasoningEnded => reasoningEnded']_vars
  /\ [][(AtEvent /\ reasoningEnded) =>
          Enqueued(out, out') \in ForwardedUnchanged(Head(lines))]_vars

\* -------------------------------------------------------------------- C22
\* The event at hand carries non-empty reasoning and its content is null or
\* left out.
ReasoningOnly == Truthy(Current.reasoning) /\ Current.content.t \in {"null", "absent"}

\* C22: in the bodies that track reasoning, an event with non-empty
\* reasoning and null or absent content that is processed while the phase
\* is NotStarted starts the phase: the header is enqueued, then the quoted
\* fragment, nothing else, and the phase is Active.
ReasoningStartsPhase ==
  [][(AtEvent /\ Phase = "NotStarted" /\ ReasoningOnly) =>
       /\ reasoningStarted' /\ ~reasoningEnded'
       /\ Len(Enqueued(out, out')) = 2
       /\ IsHeader(out'[Len(out) + 1])
       /\ IsContentEvent(out'[Len(out) + 2], QuotedText(Current.reasoning.s))]_vars

\* -------------------------------------------------------------------- C23
\* The content of the event at hand is present and not null.
ContentPresent == Current.content.t \notin {"null", "absent"}

\* The step has enqueued a duration separator.
SeparatorEnqueued(o1, o2) == \E i \in (Len(o1) + 1)..Len(o2) : IsSeparator(o2[i])

\* C23: in the bodies that track reasoning, the phase becomes Ended and a
\* duration separator is enqueued only for an event whose delta.content is
\* present and not null; while the phase is Active an event with no
\* reasoning and with content absent or null is forwarded unchanged and
\* leaves the phase Active.
SeparatorOnlyOnContent ==
  [][AtEvent =>
       /\ (~reasoningEnded /\ reasoningEnded') => ContentPresent
       /\ SeparatorEnqueued(out, out') => ContentPresent
       /\ (Phase = "Active" /\ ~Truthy(Current.reasoning) /\ ~ContentPresent) =>
            /\ Enqueued(out, out') \in ForwardedUnchanged(Head(lines))
            /\ reasoningStarted' /\ ~reasoningEnded']_vars

\* -------------------------------------------------------------------- C24
\* The enqueued texts that are a rewritten reasoning event: an event whose
\* delta is { content } with the quoted text of a reasoning fragment.
QuotedEvents ==
  UNION {ContentEvents(QuotedText(u.reasoning.s)) :
           u \in {d \in Universe : d.reasoning.t = "str"}}

QuotedAt == {i \in DOMAIN out : out[i] \in QuotedEvents}

\* o1 is the beginning of o2.
IsPrefix(o1, o2) == Len(o1) <= Len(o2) /\ SubSeq(o2, 1, Len(o1)) = o1

\* C24: in the bodies that track reasoning the header is enqueued before
\* every rewritten reasoning event and before the separator; the separator
\* is enqueued after every rewritten reasoning event enqueued until then and
\* immediately before the line that triggered it, forwarded as it came; what
\* a line enqueues is appended to what the lines before it have enqueued,
\* and the lines are taken in the order of the input.
MarkersInOrder ==
  /\ [](TracksReasoning =>
          /\ \A q \in QuotedAt : \E h \in Headers : h < q
          /\ \A sep \in Separators :
               /\ \E h \in Headers : h < sep
               /\ sep < Len(out)
               /\ ~IsSeparator(out[sep + 1]) /\ ~IsHeader(out[sep + 1]))
  /\ [][/\ IsPrefix(out, out')
        /\ (pc = "lines" /\ out' # out) =>
             (lines' = IF pc' = "exit" THEN lines ELSE Tail(lines))
        /\ (AtEvent /\ SeparatorEnqueued(out, out')) =>
             /\ Len(Enqueued(out, out')) = 2
             /\ IsSeparator(out'[Len(out) + 1])
             /\ out'[Len(out) + 2] = Encode(Forward(Head(lines)))]_vars

\* A header, a rewritten reasoning event, the separator and the content
\* line that triggered it have been enqueued, in this order.
MarkersInOrderWitness ==
  /\ TracksReasoning
  /\ Len(out) = 4
  /\ Headers = {1}
  /\ QuotedAt = {2}
  /\ Separators = {3}
  /\ HasDelta(InputLines[2])
  /\ out[4] = Encode(Forward(InputLines[2]))

\* -------------------------------------------------------------------- C25
\* C25: the start time is unset (null) while the phase is NotStarted and set
\* while it is Active or Ended; it is assigned only in the step that takes
\* the phase from NotStarted to Active, to the time of that step, and never
\* again; it is read only in the step that takes the phase from Active to
\* Ended, which is the one step that enqueues a separator, and the separator
\* announces the time elapsed since the start time.
StartTimeOnce ==
  /\ [](TracksReasoning => (reasoningStarted <=> startThinkingTime # <<>>))
  /\ [](reasoningEnded => reasoningStarted)
  /\ [](Cardinality(Separators) <= 1)
  /\ [][/\ (~reasoningStarted /\ reasoningStarted') => startThinkingTime' = <<now>>
        /\ startThinkingTime' # startThinkingTime =>
             (~reasoningStarted /\ reasoningStarted' /\ startThinkingTime = <<>>)
        /\ SeparatorEnqueued(out, out') <=>
             (reasoningStarted /\ ~reasoningEnded /\ reasoningEnded')
        /\ SeparatorEnqueued(out, out') =>
             IsContentEvent(out'[Len(out) + 1],
                            SeparatorText(ThinkingDuration(now, startThinkingTime[1])))]_vars

\* The phase has ended some time after it started, a second reasoning
\* fragment having come in between at a later time than the first.
StartTimeWitness ==
  /\ reasoningEnded
  /\ startThinkingTime = <<0>>
  /\ now = MaxClock
  /\ Cardinality(QuotedAt) = 2
  /\ Cardinality(Separators) = 1

\* -------------------------------------------------------------------- C26
\* The line at hand is marked and its payload holds the sentinel token.
AtSentinel ==
  AtLine /\ StartsWith(Head(lines), Marker)
         /\ Includes(Payload(Head(lines)), SentinelToken)

\* The line at hand is forwarded as it came, last of what the step enqueues,
\* and the reasoning phase is left as it is.
SentinelForwarded ==
  [][AtSentinel =>
       /\ out' # out
       /\ out'[Len(out')] = Encode(Forward(Head(lines)))
       /\ reasoningStarted' = reasoningStarted
       /\ reasoningEnded' = reasoningEnded
       /\ startThinkingTime' = startThinkingTime]_vars

\* C26: a 'data: ' line whose payload holds '[DONE]' anywhere, the payload
\* that is a JSON event with '[DONE]' in its text included, is forwarded as
\* it came and is not parsed: it changes neither the reasoning phase nor the
\* captured citations.
SentinelChangesNothing ==
  /\ SentinelForwarded
  /\ [][AtSentinel =>
          /\ citations' = citations
          /\ citationsReceived' = citationsReceived]_vars

\* -------------------------------------------------------------------- C27
\* The text after the last line break of t: t itself when it has none.
LastOf(S) == CHOOSE i \in S : \A j \in S : j <= i

AfterLastBreak(t) ==
  IF \E i \in DOMAIN t : t[i] = "\n"
  THEN SubSeq(t, 1 + LastOf({i \in DOMAIN t : t[i] = "\n"}), Len(t))
  ELSE t

\* The text the decoder has given for the bytes read so far.
TextRead == Decode(<<>>, BytesRead).text

\* C27: the buffer never holds a line break; after every read it is the
\* text after the last line break of the buffer before the read followed by
\* the decoded chunk, and the lines the read hands to the for loop are the
\* text before that line break, cut at its line breaks; a read is made only
\* when no line is left, and the loop takes the lines one by one from the
\* first, so that each line of the text read is processed once, in order,
\* and none before its line break has arrived.
BufferKeepsTail ==
  /\ [](/\ ~Includes(buffer, "\n")
        /\ \A i \in DOMAIN lines : ~Includes(lines[i], "\n")
        /\ \E text \in {TextRead} :
             /\ buffer = AfterLastBreak(text)
             /\ \E read \in {CompleteLines(text)} :
                  /\ Len(lines) <= Len(read)
                  /\ lines = SubSeq(read, Len(read) - Len(lines) + 1, Len(read)))
  /\ [][/\ pos' # pos =>
             /\ lines = <<>>
             /\ \E d \in {Decode(pending, SubSeq(input, pos + 1, pos'))} :
                  /\ buffer' = AfterLastBreak(buffer \o d.text)
                  /\ TextOf(lines') \o buffer' = buffer \o d.text
        /\ pos' = pos => /\ buffer' = buffer
                         /\ lines' = lines \/ (lines # <<>> /\ lines' = Tail(lines))]_vars

\* Two lines completed by one chunk are about to be processed, the first
\* of them begun in an earlier chunk, and the chunk has ended inside a
\* third line.
BufferWitness ==
  /\ pc = "lines"
  /\ Len(lines) = 2
  /\ Len(LinesRead) = 2
  /\ Len(Head(lines)) >= MaxChunk
  /\ buffer # <<>>

\* -------------------------------------------------------------------- C28
\* The step has enqueued a citation footer.
FooterEnqueued(o1, o2) == \E i \in (Len(o1) + 1)..Len(o2) : IsFooter(o2[i])

\* The store holds a list with at least one citation.
CapturedNonEmpty == citations.t = "list" /\ citations.s # <<>>

\* C28: a footer is enqueued, at the sentinel or at the end of the
\* transport, only when citations have been captured and the captured list
\* is not empty.
FooterOnlyForCitations == [][FooterEnqueued(out, out') => CapturedNonEmpty]_vars

\* -------------------------------------------------------------------- C29
\* The first of the lines that carries a non-empty citations list.
FirstCitationList(ls) ==
  CHOOSE i \in DOMAIN ls :
    CarriesCitationList(ls[i]) /\ \A j \in 1..(i - 1) : ~CarriesCitationList(ls[j])

\* C29: the citations captured are those of the first event whose citations
\* list is not empty, an empty list before it not counting as a capture: a
\* complete response with such an event has a footer that lists the
\* citations of the first of them.
EmptyListNotCaptured ==
  (streamState = "closed" /\ \E i \in DOMAIN InputLines : CarriesCitationList(InputLines[i]))
  => \E k \in Footers :
       out[k] \in FootersOf(DataOf(InputLines[FirstCitationList(InputLines)]).citations.s)

\* -------------------------------------------------------------------- C30
\* The footer the claim describes for the citations c: an event of the chat
\* shape whose delta.content is a blank-line separator, a header line, and
\* one entry '[i] > citation' per citation, in order, numbered from 1.
ChatFooter(c) ==
  Emit(ContentOnly(<<"\n", "\n", "---", "\n", "\n", "Sources:", "\n">>
                   \o CitationsTextSpaced(c)))

\* C30: in a response whose citations fields are non-empty lists, every
\* footer enqueued is such an event, for the captured citations.
FooterIsChatEvent ==
  CitationsAreLists =>
    \A k \in Footers : \E c \in CitationLists : out[k] = Encode(ChatFooter(c))

\* -------------------------------------------------------------------- C31
\* The enqueued text ev holds the top-level field `id` of data with its
\* value, when data has one.
TopLevelKept(ev, data) ==
  data.id.t = "absent"
  \/ \E i \in 1..(Len(ev) - 1) : ev[i] = "\"id\":" /\ <<ev[i + 1]>> = ValueTokens(data.id)

\* C31: every text enqueued for an input event (the forwarded copy, the
\* rewritten reasoning event, the header and the separator made from it)
\* holds every top-level field of that event other than choices and
\* citations, with its value.
TopLevelFieldsKept ==
  [][(AtLine /\ IsEvent(Head(lines))) =>
       \A i \in (Len(out) + 1)..Len(out') : TopLevelKept(out'[i], DataOf(Head(lines)))]_vars

\* ------------------------------------------- the text after the last break
\* Streams whose last line has no line break: a whole event, with reasoning
\* or content and with citations, or the sentinel, is left in the buffer
\* when the reader reports done.
ResidueLines == {EventLine(EvReasoning), EventLine(EvContent)}
UnterminatedLines ==
  {EventLine(EvReasoningCited), EventLine(EvContentCited), SentinelLine}

InitResidue == InitWith(ResidueLines, UnterminatedLines, "bytes")
SpecResidue == InitResidue /\ [][Next]_vars

\* -------------------------------------------------------------------- C32
\* The bytes of the input up to its last line break.
TerminatedInput == Encode(TextOf(InputLines))

\* C32: when the reader reports done while the buffer holds a partial line,
\* that text is dropped: the response ends as it would had the input stopped
\* at its last line break, so that the text is neither enqueued nor parsed
\* and changes neither the reasoning phase nor the captured citations; and
\* the step that ends the response enqueues nothing but a footer.
ResidueDiscarded ==
  /\ [](streamState = "closed" =>
          /\ buffer = AfterLastBreak(Decode(<<>>, input).text)
          /\ EndsAs(OneChunk(variant, TerminatedInput)))
  /\ [][(pc = "read" /\ pc' = "exit") =>
          \A i \in (Len(out) + 1)..Len(out') : IsFooter(out'[i])]_vars

\* The response has been closed with a whole reasoning event left in the
\* buffer, after other lines have been processed.
ResidueWitness ==
  /\ streamState = "closed"
  /\ buffer = EventLine(EvReasoningCited)
  /\ Len(InputLines) >= 1
  /\ out # <<>>

\* ------------------------------------------------ the end of a response
\* Few and short inputs: a reasoning event with citations, an event whose
\* citations are not a list, and the sentinel.
EndLines == {EventLine(EvReasoning), EventLine(EvReasoningCited),
             EventLine(EvCitationsString), SentinelLine}

InitFair == InitWith(EndLines, {<<>>}, "lines")

\* Control moves on: the loop takes a chunk, ends the for loop over the
\* lines of a chunk, or is left.
Turn ==
  /\ pc # "exit"
  /\ pc' \in {"read", "lines", "exit"}
  /\ pos' \in pos..Len(input)

\* The input is finite and the reader answers every read: the body is an
\* async function that the event loop resumes whenever the read it awaits
\* settles, and between two awaits it runs to completion.  So control does
\* not stay for ever where it is while the loop has not ended.
SpecFair == InitFair /\ [][Next]_vars /\ WF_<<pc, pos>>(Turn)

\* -------------------------------------------------------------------- C33
\* C33: every response ends, its output stream closed or errored and so
\* for good; the stream is closed only by the step taken when the reader
\* reports done, all bytes read and all lines processed, which enqueues the
\* footer before it closes; once the stream is closed or errored nothing is
\* enqueued and its state does not change, so that it is closed at most once
\* and never both closed and errored.
StreamEndsOnce ==
  /\ <>[](pc = "exit" /\ streamState \in {"closed", "errored"})
  /\ [][streamState # "readable" => (out' = out /\ streamState' = streamState)]_vars
  /\ [][(streamState = "readable" /\ streamState' = "closed") =>
          /\ pc = "read" /\ pos = Len(input) /\ lines = <<>>
          /\ ~readFailed'
          /\ pc' = "exit"]_vars

\* The response has ended closed, a footer the last of several texts
\* enqueued.
StreamEndsWitness ==
  /\ pc = "exit"
  /\ streamState = "closed"
  /\ Len(out) >= 3
  /\ IsFooter(out[Len(out)])
  /\ ~readFailed

\* ------------------------------------------------ the two wrappers of a file
\* Each file holds two function expressions that are called one after the
\* other.  The second one's `const originalFetch = window.fetch` finds the
\* wrapper the first has installed, so what its `await originalFetch.apply`
\* returns is the response the first wrapper made: the stream of the first
\* body, under the headers of the upstream response.
ChainLines == {EventLine(EvCitations), EventLine(EvReasoningCited),
               EventLine(EvContent), SentinelLine}

\* The body of the wrapper installed last in the file of body v.
Second(v) == IF v = "reasonA" THEN "reasonB" ELSE "partB"

InitChain ==
  /\ InitWith(ChainLines, {<<>>}, "lines")
  /\ variant \in {"reasonA", "partA"}

\* The text delivered so far, line by line.
DeliveredLines == CompleteLines(Decode(<<>>, Flatten(out)).text)

\* The lines that carry a footer, in each of the shapes the bodies give it.
FooterLines ==
  UNION {{CitationsMessage(c), CitationsChunk(c), CitationsData(c)} : c \in CitationLists}

\* The second wrapper takes the streaming path for the response of the
\* first (its content type is the upstream one), and its body reads the
\* stream of the first body, chunk by chunk as enqueued.  The first body is
\* taken to have closed its stream: the second only ever waits for chunks,
\* so that what it reads does not depend on when it reads.
Handover ==
  /\ pc = "exit"
  /\ streamState = "closed"
  /\ other = <<>>
  /\ variant \in {"reasonA", "partA"}
  /\ IsEventStream(ProcessStreamingResponse(variant,
       ResponseOf(TRUE, 200, "OK", StreamHeaders, TRUE, "network", <<>>)))
  /\ other' = Closure
  /\ variant' = Second(variant)
  /\ cuts' = "chunks"
  /\ input' = Flatten(out)
  /\ pos' = 0
  /\ pending' = <<>>
  /\ buffer' = <<>>
  /\ lines' = <<>>
  /\ reasoningStarted' = FALSE
  /\ reasoningEnded' = FALSE
  /\ startThinkingTime' = <<>>
  /\ citations' = InitialCitations(Second(variant))
  /\ citationsReceived' = FALSE
  /\ responseFinished' = FALSE
  /\ out' = <<>>
  /\ streamState' = "readable"
  /\ readFailed' = FALSE
  /\ pc' = "read"
  /\ UNCHANGED <<now, cancelled, readsAfterCancel, callVars>>

NextChain == Next \/ Handover

SpecChain == InitChain /\ [][NextChain]_vars

\* -------------------------------------------------------------------- C34
\* C34: a streaming response goes through the body of the first wrapper of
\* its file and then through the body of the second; in the text the second
\* body has delivered when it closes its stream, at most one line carries
\* the citation footer.
FooterOnceDelivered ==
  (other # <<>> /\ streamState = "closed") =>
    Cardinality({i \in DOMAIN DeliveredLines :
                   DeliveredLines[i] \o <<"\n", "\n">> \in FooterLines}) <= 1

====
